---- MODULE Spec2Model ----
(***************************************************************************)
(* The Pangea guard adapters of langchain_community: six tools (URL, IP    *)
(* and domain reputation guards, prompt guard, AI guard, redact guard) and *)
(* one document transformer.  Each is constructed with a credential, calls *)
(* one method of the vendor SDK and interprets the response.               *)
(*                                                                         *)
(* Python str values are modelled as sequences of one-character strings,   *)
(* Optional values as sequences of length 0 (None) or 1 (a value).  The    *)
(* vendor service is outside the repository: its responses are inputs.     *)
(***************************************************************************)
EXTENDS Integers, Sequences, FiniteSets, TLC

VARIABLES
    optimize,   \* TRUE when the interpreter strips assert statements (python -O)
    self,       \* the adapter instance under test
    wire,       \* the remote calls made by the last call
    last        \* the last call (constructor or invocation): its arguments, the
                \* vendor responses it consumed and its outcome

vars == <<optimize, self, wire, last>>

----------------------------------------------------------------------------
(* Optional values and Python truthiness *)

None == <<>>
Some(x) == <<x>>
IsNone(o) == o = <<>>
Get(o) == o[1]

\* bool() of a str or of a pydantic SecretStr: both define __len__.
StrTruthy(s) == Len(s) /= 0

\* bool() of an Optional[str] / Optional[SecretStr]: None is falsy.
OptStrTruthy(o) == IF IsNone(o) THEN FALSE ELSE StrTruthy(Get(o))

----------------------------------------------------------------------------
(* The adapter classes *)

UrlGuard == "PangeaUrlIntelGuard"
IpGuard == "PangeaIpIntelGuard"
DomainGuard == "PangeaDomainIntelGuard"
PromptGuard == "PangeaPromptGuard"
AIGuard == "PangeaAIGuard"
RedactGuard == "PangeaRedactGuard"
Transformer == "PangeaGuardTransformer"

IntelGuards == {UrlGuard, IpGuard, DomainGuard}
Tools == IntelGuards \cup {PromptGuard, AIGuard, RedactGuard}
Adapters == Tools \cup {Transformer}

\* The default of the pangea_token_env_key_name parameter of each constructor.
DefaultEnvKey(cls) ==
    CASE cls = UrlGuard -> "PANGEA_URL_INTEL_TOKEN"
      [] cls = IpGuard -> "PANGEA_IP_INTEL_TOKEN"
      [] cls = DomainGuard -> "PANGEA_DOMAIN_INTEL_TOKEN"
      [] cls = PromptGuard -> "PANGEA_PROMPT_GUARD_TOKEN"
      [] cls = AIGuard -> "PANGEA_AI_GUARD_TOKEN"
      [] cls = RedactGuard -> "PANGEA_REDACT_TOKEN"
      [] cls = Transformer -> "PANGEA_AI_GUARD_TOKEN"

\* The vendor SDK service class each constructor instantiates.
ServiceOf(cls) ==
    CASE cls = UrlGuard -> "UrlIntel"
      [] cls = IpGuard -> "IpIntel"
      [] cls = DomainGuard -> "DomainIntel"
      [] cls = PromptGuard -> "PromptGuard"
      [] cls = AIGuard -> "AIGuard"
      [] cls = RedactGuard -> "Redact"
      [] cls = Transformer -> "AIGuard"

\* The default of the threshold parameter of the reputation guards.
DefaultThreshold == 80

\* The default of the recipe parameter.
DefaultRecipe(cls) ==
    CASE cls = AIGuard -> Some("pangea_prompt_guard")
      [] cls = Transformer -> Some("pangea_ingestion_guard")
      [] OTHER -> None

\* The parameters each constructor declares; none takes **kwargs.
Parameters(cls) ==
    {"pangea_token", "config", "pangea_token_env_key_name"} \cup
    (CASE cls \in IntelGuards -> {"threshold"}
       [] cls \in {PromptGuard, RedactGuard} -> {"config_id"}
       [] cls \in {AIGuard, Transformer} -> {"config_id", "recipe"})

\* The keywords of a call that no parameter of the constructor takes.
UnexpectedKeywords(cls, keywords) == keywords \ Parameters(cls)

----------------------------------------------------------------------------
(* Construction: credential resolution *)

\* os.getenv(key, ""): the variable's value, "" when it is not set.
GetEnv(environ, key) == IF IsNone(environ[key]) THEN <<>> ELSE Get(environ[key])

\* if not pangea_token: pangea_token = SecretStr(os.getenv(env_key_name, ""))
ResolveTokenEnvFirst(pangea_token, environ, key) ==
    IF StrTruthy(GetEnv(environ, key)) THEN Some(GetEnv(environ, key)) ELSE pangea_token

ResolveToken(pangea_token, environ, key) ==
    IF ~OptStrTruthy(pangea_token) THEN Some(GetEnv(environ, key)) ELSE pangea_token

\* if not pangea_token or not pangea_token.get_secret_value()
\*    or pangea_token.get_secret_value() == "": raise ValueError(...)
TokenMissingNoneOnly(token) == IsNone(token)

TokenMissing(token) ==
    \/ ~OptStrTruthy(token)
    \/ ~StrTruthy(Get(token))
    \/ Get(token) = <<>>

NoInstance == [cls |-> "none", client |-> None, threshold |-> None, recipe |-> None]

\* The instance the constructor body builds once the credential is accepted.
NewInstance(cls, token, threshold, recipe) ==
    [cls |-> cls,
     client |-> Some([service |-> ServiceOf(cls), token |-> Get(token)]),
     threshold |-> IF cls \in IntelGuards THEN Some(threshold) ELSE None,
     recipe |-> IF cls \in {AIGuard, Transformer} THEN Some(recipe) ELSE None]

----------------------------------------------------------------------------
(* Candidate extraction: re.findall with each guard's pattern *)

Digits == {"0", "1", "2", "3", "4", "5", "6", "7", "8", "9"}

Letters ==
    {"a", "b", "c", "d", "e", "f", "g", "h", "i", "j", "k", "l", "m", "n",
     "o", "p", "q", "r", "s", "t", "u", "v", "w", "x", "y", "z",
     "A", "B", "C", "D", "E", "F", "G", "H", "I", "J", "K", "L", "M", "N",
     "O", "P", "Q", "R", "S", "T", "U", "V", "W", "X", "Y", "Z"}

\* [a-zA-Z0-9.-]
HostChars == Letters \cup Digits \cup {".", "-"}

\* \w
WordChars == Letters \cup Digits \cup {"_"}

Max(S) == CHOOSE x \in S : \A y \in S : y <= x

\* The number of consecutive characters of class C starting at position i.
RECURSIVE RunLen(_, _, _)
RunLen(s, i, C) ==
    IF i <= Len(s) /\ s[i] \in C THEN 1 + RunLen(s, i + 1, C) ELSE 0

\* The literal lit stands at position i of s.
HasAt(s, i, lit) ==
    /\ i + Len(lit) - 1 <= Len(s)
    /\ \A k \in 1..Len(lit) : s[i + k - 1] = lit[k]

Http == <<"h", "t", "t", "p", ":", "/", "/">>
Https == <<"h", "t", "t", "p", "s", ":", "/", "/">>
Www == <<"w", "w", "w", ".">>

\* https?:// at position i: the length matched, 0 when there is no match.
SchemeLen(s, i) ==
    IF HasAt(s, i, Https) THEN Len(Https)
    ELSE IF HasAt(s, i, Http) THEN Len(Http)
    ELSE 0

\* (?::\d+)? at position i: the lengths it can match (the regex engine
\* tries the longest first and the empty match last).
PortLens(s, i) ==
    {0} \cup (IF i <= Len(s) /\ s[i] = ":"
              THEN {1 + d : d \in 1..RunLen(s, i + 1, Digits)}
              ELSE {})

\* $ at position i: the end of the string, or just before a final newline.
AtEnd(s, i) == i = Len(s) + 1 \/ (i = Len(s) /\ s[i] = "\n")

\* (?:/|$) matches at position i.
TailMatches(s, i) == (i <= Len(s) /\ s[i] = "/") \/ AtEnd(s, i)

\* The length (?:/|$) matches at a position where it matches.
TailLen(s, i) == IF i <= Len(s) /\ s[i] = "/" THEN 1 ELSE 0

\* \d{1,3}\. at position i: the positions right after a match.
OctetDotEnds(s, i) ==
    {i + k + 1 : k \in {j \in 1..3 : j <= RunLen(s, i, Digits)
                                     /\ i + j <= Len(s) /\ s[i + j] = "."}}

\* \d{1,3} at position i: the positions right after a match.
OctetEnds(s, i) == {i + k : k \in {j \in 1..3 : j <= RunLen(s, i, Digits)}}

\* (?:\d{1,3}\.){3}\d{1,3} at position i: the positions right after a match.
QuadEnds(s, i) ==
    UNION {UNION {UNION {OctetEnds(s, d) : d \in OctetDotEnds(s, c)}
                  : c \in OctetDotEnds(s, b)}
           : b \in OctetDotEnds(s, i)}

\* [a-zA-Z0-9.-]+ at position i: the positions right after a match.
HostEnds(s, i) == {i + L : L \in 1..RunLen(s, i, HostChars)}

NoMatch == [ok |-> FALSE, grp |-> <<>>, end |-> 0]

\* A match whose group is s[from .. to - 1] and which ends before position end.
Match(s, from, to, end) == [ok |-> TRUE, grp |-> SubSeq(s, from, to - 1), end |-> end]

\* The match the regex engine settles on among those ending group 1 at the
\* positions ends: the longest, its quantifiers being greedy.
UrlLongest(s, i, ends) ==
    IF ends = {} THEN NoMatch ELSE Match(s, i, Max(ends), Max(ends) + TailLen(s, Max(ends)))

\* From the host ends, the ends of group 1 (the host and the optional port)
\* after which (?:/|$) matches.
UrlGroupEnds(s, ends) ==
    UNION {{e + pl : pl \in {p \in PortLens(s, e) : TailMatches(s, e + p)}} : e \in ends}

\* The first alternative of (?:[a-zA-Z0-9.-]+|(?:\d{1,3}\.){3}\d{1,3}) that
\* leads to a match decides.
FirstAlternative(alt1, alt2) == IF alt1 /= {} THEN alt1 ELSE alt2

UrlMatchAfterScheme(s, i, sl) ==
    IF sl = 0 THEN NoMatch
    ELSE UrlLongest(s, i, FirstAlternative(UrlGroupEnds(s, HostEnds(s, i + sl)),
                                           UrlGroupEnds(s, QuadEnds(s, i + sl))))

\* _url_pattern at position i; grp is group 1 (scheme, host and port).
UrlMatchAt(s, i) == UrlMatchAfterScheme(s, i, SchemeLen(s, i))

\* \b at position i: exactly one of the characters around it is a word character.
WordBoundary(s, i) ==
    (i > 1 /\ i - 1 <= Len(s) /\ s[i - 1] \in WordChars)
        /= (i >= 1 /\ i <= Len(s) /\ s[i] \in WordChars)

IpLongest(s, i, ends) ==
    IF ends = {} THEN NoMatch ELSE Match(s, i, Max(ends), Max(ends))

\* _ip_pattern at position i; grp is the whole match.
IpMatchAt(s, i) ==
    IF ~WordBoundary(s, i) THEN NoMatch
    ELSE IpLongest(s, i, {e \in QuadEnds(s, i) : WordBoundary(s, e)})

\* (?:www\.)? at position h: where the host group starts.  The engine takes
\* "www." when the host can still match after it.
DomainHostStart(s, h) ==
    IF HasAt(s, h, Www) /\ RunLen(s, h + Len(Www), HostChars) > 0 THEN h + Len(Www) ELSE h

DomainHostRun(s, h, run) ==
    IF run = 0 THEN NoMatch
    ELSE Match(s, h, h + run, h + run + Max(PortLens(s, h + run)))

DomainHost(s, h) == DomainHostRun(s, h, RunLen(s, h, HostChars))

DomainMatchAfterScheme(s, i, sl) ==
    IF sl = 0 THEN NoMatch ELSE DomainHost(s, DomainHostStart(s, i + sl))

\* _domain_pattern at position i; grp is group 1 (the host without "www.").
DomainMatchAt(s, i) == DomainMatchAfterScheme(s, i, SchemeLen(s, i))

\* The pattern of each reputation guard, tried at one position.
MatchAt(cls, s, i) ==
    CASE cls = UrlGuard -> UrlMatchAt(s, i)
      [] cls = IpGuard -> IpMatchAt(s, i)
      [] cls = DomainGuard -> DomainMatchAt(s, i)

\* re.findall(pattern, input_text): the groups of the non-overlapping
\* matches, left to right; the scan resumes where a match ended.
RECURSIVE FindAllFrom(_, _, _)
FindAllAfter(cls, s, i, m) ==
    IF m.ok
    THEN <<m.grp>> \o FindAllFrom(cls, s, IF m.end > i THEN m.end ELSE i + 1)
    ELSE FindAllFrom(cls, s, i + 1)

FindAllFrom(cls, s, i) ==
    IF i > Len(s) THEN <<>> ELSE FindAllAfter(cls, s, i, MatchAt(cls, s, i))

FindAll(cls, s) == FindAllFrom(cls, s, 1)

----------------------------------------------------------------------------
(* Inputs: texts, documents, credentials and vendor responses *)

\* "hi"
TextPlain == <<"h", "i">>

\* "http://a.co/x"
TextUrl == <<"h", "t", "t", "p", ":", "/", "/", "a", ".", "c", "o", "/", "x">>

\* "go http://1.2.3.4:80"
TextIpUrl == <<"g", "o", " ", "h", "t", "t", "p", ":", "/", "/", "1", ".", "2", ".", "3", ".", "4", ":", "8", "0">>

\* "http://b.co now"
TextUrlSpace == <<"h", "t", "t", "p", ":", "/", "/", "b", ".", "c", "o", " ", "n", "o", "w">>

\* "http://a.co/ https://www.b.co/"
TextTwoUrls == <<"h", "t", "t", "p", ":", "/", "/", "a", ".", "c", "o", "/", " ", "h", "t", "t", "p", "s", ":", "/", "/", "w", "w", "w", ".", "b", ".", "c", "o", "/">>

\* "ip 10.0.0.45."
TextIp == <<"i", "p", " ", "1", "0", ".", "0", ".", "0", ".", "4", "5", ".">>

\* ""
TextEmpty == <<>>

Texts == {TextPlain, TextUrl, TextIpUrl, TextUrlSpace, TextTwoUrls, TextIp, TextEmpty}

\* Texts the vendor sends back as redacted_text / redacted_prompt.
RedactedA == <<"<", "P", ">">>
RedactedTexts == {None, Some(<<>>), Some(RedactedA)}

\* Credentials: the explicit argument and the values of environment variables.
TokArg == <<"A">>
TokEnv == <<"E">>
TokCustomEnv == <<"C">>
CustomEnvKey == "MY_PANGEA_TOKEN"

TokenArgs == {None, Some(<<>>), Some(TokArg)}

Environs(cls) ==
    {e \in [{DefaultEnvKey(cls), CustomEnvKey} -> {None, Some(<<>>), Some(TokEnv), Some(TokCustomEnv)}] :
        /\ e[DefaultEnvKey(cls)] /= Some(TokCustomEnv)
        /\ e[CustomEnvKey] \in {None, Some(TokCustomEnv)}}

\* A threshold other than the default, and scores below, at and above the
\* thresholds.
LowThreshold == 50
Thresholds == {DefaultThreshold, LowThreshold}
Scores == {LowThreshold, DefaultThreshold - 1, DefaultThreshold}

Recipes(cls) ==
    IF cls \in {AIGuard, Transformer}
    THEN {Get(DefaultRecipe(cls)), "my_recipe"}
    ELSE {"unused"}

\* Documents: page_content and metadata.
MaxDocs == 2
Documents ==
    {[page_content |-> TextPlain, metadata |-> "m1"],
     [page_content |-> TextIp, metadata |-> "m2"]}
DocLists == UNION {[1..n -> Documents] : n \in 0..MaxDocs}

\* A vendor response: result is FALSE when response.result is None; the
\* other fields are those of the result the adapters read.
NoResult == [result |-> FALSE, data |-> <<>>, detected |-> FALSE, redacted |-> None]
IntelResult(data) == [result |-> TRUE, data |-> data, detected |-> FALSE, redacted |-> None]
PromptResult(d) == [result |-> TRUE, data |-> <<>>, detected |-> d, redacted |-> None]
TextResult(r, d) == [result |-> TRUE, data |-> <<>>, detected |-> d, redacted |-> r]

Range(f) == {f[x] : x \in DOMAIN f}

\* The responses the reputation service can give to a bulk lookup: no
\* result, or a score for any subset of the indicators submitted.
IntelResponses(cands) ==
    {NoResult} \cup
    {IntelResult(d) : d \in UNION {[K -> Scores] : K \in SUBSET Range(cands)}}

PromptResponses == {NoResult} \cup {PromptResult(d) : d \in BOOLEAN}
TextResponses == {NoResult} \cup {TextResult(r, d) : r \in RedactedTexts, d \in BOOLEAN}
RedactResponses == {NoResult} \cup {TextResult(r, FALSE) : r \in RedactedTexts}

----------------------------------------------------------------------------
(* Outcomes of a call: a returned value or a raised exception *)

\* A message is the sequence of its parts: the sentence, then what follows it.
Returned(text) ==
    [kind |-> "return", error |-> "", message |-> <<>>, text |-> Some(text), docs |-> None]
ReturnedDocs(docs) ==
    [kind |-> "return", error |-> "", message |-> <<>>, text |-> None, docs |-> Some(docs)]
Raised(error, message) ==
    [kind |-> "raise", error |-> error, message |-> message, text |-> None, docs |-> None]
NoOutcome == [kind |-> "none", error |-> "", message |-> <<>>, text |-> None, docs |-> None]

ResultMissingMsg == <<"Result is invalid or missing">>

\* `assert x.result` with no result raises AssertionError; with asserts
\* stripped the statement is gone and the attribute access on the None
\* result that follows it raises AttributeError.
NoneAttribute(attr) == Raised("AttributeError", <<"'NoneType' object has no attribute ", attr>>)

\* The exception classes each adapter module defines.
ModuleErrors(cls) ==
    CASE cls = UrlGuard -> {"PangeaUrlGuardError"}
      [] cls = IpGuard -> {"MaliciousIpAddressesError"}
      [] cls = DomainGuard -> {"MaliciousDomainsError"}
      [] cls = PromptGuard -> {"PangeaPromptGuardError"}
      [] cls = AIGuard -> {"PangeaAIGuardError"}
      [] cls = RedactGuard -> {}
      [] cls = Transformer -> {}

\* One remote call: the SDK service, its method and the texts passed.
Call(inst, method, args) ==
    [service |-> Get(inst.client).service, token |-> Get(inst.client).token,
     method |-> method, args |-> args, recipe |-> inst.recipe]

\* any(d.score >= self._threshold for d in intel.result.data.values())
AnyScoreAbove(data, threshold) == \E k \in DOMAIN data : data[k] > threshold

AnyScoreReaches(data, threshold) == \E k \in DOMAIN data : data[k] >= threshold

----------------------------------------------------------------------------
(* The _run method of each tool: the outcome and the remote calls made.   *)
(* resp is the vendor's response to the remote call, if one is made.      *)

UrlCheckReturnsMatch(inst, input_text, urls, resp, opt) ==
    IF Len(urls) = 0 THEN [outcome |-> Returned(input_text), wire |-> <<>>]
    ELSE [outcome |-> Returned(urls[1]), wire |-> <<Call(inst, "reputation_bulk", urls)>>]

\* PangeaUrlIntelGuard._run, from the candidates found on.
UrlCheck(inst, input_text, urls, resp, opt) ==
    LET calls == <<Call(inst, "reputation_bulk", urls)>>
    IN  IF Len(urls) = 0 THEN [outcome |-> Returned(input_text), wire |-> <<>>]
        ELSE IF ~resp.result
             THEN [outcome |-> Raised("PangeaUrlGuardError", ResultMissingMsg), wire |-> calls]
        ELSE IF AnyScoreReaches(resp.data, Get(inst.threshold))
             THEN [outcome |-> Raised("PangeaUrlGuardError",
                                      <<"Malicious URLs found in the provided input", ".">>),
                   wire |-> calls]
        ELSE [outcome |-> Returned(input_text), wire |-> calls]

\* PangeaUrlIntelGuard._run
UrlRun(inst, input_text, resp, opt) ==
    UrlCheck(inst, input_text, FindAll(UrlGuard, input_text), resp, opt)

\* An IP guard that calls the vendor even when it found no candidate.
IpCheckAlwaysCalls(inst, input_text, ips, resp, opt) ==
    LET calls == <<Call(inst, "reputation_bulk", ips)>>
    IN  IF ~resp.result
        THEN [outcome |-> IF opt THEN NoneAttribute("data")
                          ELSE Raised("AssertionError", <<>>),
              wire |-> calls]
        ELSE IF AnyScoreReaches(resp.data, Get(inst.threshold))
        THEN [outcome |-> Raised("MaliciousIpAddressesError",
                                 <<"Malicious IPs found in the provided input", ".">>),
              wire |-> calls]
        ELSE [outcome |-> Returned(input_text), wire |-> calls]

\* PangeaIpIntelGuard._run, from the candidates found on.
IpCheck(inst, input_text, ips, resp, opt) ==
    LET calls == <<Call(inst, "reputation_bulk", ips)>>
    IN  IF Len(ips) = 0 THEN [outcome |-> Returned(input_text), wire |-> <<>>]
        ELSE IF ~resp.result
             THEN [outcome |-> IF opt THEN NoneAttribute("data")
                               ELSE Raised("AssertionError", <<>>),
                   wire |-> calls]
        ELSE IF AnyScoreReaches(resp.data, Get(inst.threshold))
             THEN [outcome |-> Raised("MaliciousIpAddressesError",
                                      <<"Malicious IPs found in the provided input", ".">>),
                   wire |-> calls]
        ELSE [outcome |-> Returned(input_text), wire |-> calls]

\* PangeaIpIntelGuard._run
IpRun(inst, input_text, resp, opt) ==
    IpCheck(inst, input_text, FindAll(IpGuard, input_text), resp, opt)

\* A domain guard that looks each candidate up in a call of its own.
OneCallEach(inst, domains) ==
    [k \in 1..Len(domains) |-> Call(inst, "reputation_bulk", <<domains[k]>>)]

DomainCheckOneCallEach(inst, input_text, domains, resp, opt) ==
    IF Len(domains) = 0 THEN [outcome |-> Returned(input_text), wire |-> <<>>]
    ELSE IF ~resp.result
         THEN [outcome |-> IF opt THEN NoneAttribute("data")
                           ELSE Raised("AssertionError", <<>>),
               wire |-> OneCallEach(inst, domains)]
    ELSE IF AnyScoreReaches(resp.data, Get(inst.threshold))
         THEN [outcome |-> Raised("MaliciousDomainsError",
                                  <<"Malicious domains found in the provided input">>),
               wire |-> OneCallEach(inst, domains)]
    ELSE [outcome |-> Returned(input_text), wire |-> OneCallEach(inst, domains)]

\* PangeaDomainIntelGuard._run, from the candidates found on.
DomainCheck(inst, input_text, domains, resp, opt) ==
    LET calls == <<Call(inst, "reputation_bulk", domains)>>
    IN  IF Len(domains) = 0 THEN [outcome |-> Returned(input_text), wire |-> <<>>]
        ELSE IF ~resp.result
             THEN [outcome |-> IF opt THEN NoneAttribute("data")
                               ELSE Raised("AssertionError", <<>>),
                   wire |-> calls]
        ELSE IF AnyScoreReaches(resp.data, Get(inst.threshold))
             THEN [outcome |-> Raised("MaliciousDomainsError",
                                      <<"Malicious domains found in the provided input">>),
                   wire |-> calls]
        ELSE [outcome |-> Returned(input_text), wire |-> calls]

\* PangeaDomainIntelGuard._run
DomainRun(inst, input_text, resp, opt) ==
    DomainCheck(inst, input_text, FindAll(DomainGuard, input_text), resp, opt)

\* PangeaPromptGuard._run
PromptRunInverted(inst, input_text, resp, opt) ==
    LET calls == <<Call(inst, "guard", <<input_text>>)>>
    IN  IF ~resp.result
        THEN [outcome |-> Raised("PangeaPromptGuardError", ResultMissingMsg), wire |-> calls]
        ELSE IF ~resp.detected
        THEN [outcome |-> Raised("PangeaPromptGuardError", <<"Malicious prompt detected", ".">>),
              wire |-> calls]
        ELSE [outcome |-> Returned(input_text), wire |-> calls]

PromptRun(inst, input_text, resp, opt) ==
    LET calls == <<Call(inst, "guard", <<input_text>>)>>
    IN  IF ~resp.result
        THEN [outcome |-> Raised("PangeaPromptGuardError", ResultMissingMsg), wire |-> calls]
        ELSE IF resp.detected
        THEN [outcome |-> Raised("PangeaPromptGuardError", <<"Malicious prompt detected", ".">>),
              wire |-> calls]
        ELSE [outcome |-> Returned(input_text), wire |-> calls]

\* PangeaAIGuard._run
AIRunAlwaysRedacted(inst, input_text, resp, opt) ==
    LET calls == <<Call(inst, "guard_text", <<input_text>>)>>
    IN  IF ~resp.result
        THEN [outcome |-> Raised("PangeaAIGuardError", ResultMissingMsg), wire |-> calls]
        ELSE IF ~IsNone(resp.redacted)
        THEN [outcome |-> Returned(Get(resp.redacted)), wire |-> calls]
        ELSE [outcome |-> Returned(input_text), wire |-> calls]

AIRun(inst, input_text, resp, opt) ==
    LET calls == <<Call(inst, "guard_text", <<input_text>>)>>
    IN  IF ~resp.result
        THEN [outcome |-> Raised("PangeaAIGuardError", ResultMissingMsg), wire |-> calls]
        ELSE IF OptStrTruthy(resp.redacted)
        THEN [outcome |-> Returned(Get(resp.redacted)), wire |-> calls]
        ELSE [outcome |-> Returned(input_text), wire |-> calls]

\* PangeaRedactGuard._run
RedactRunAlwaysRedacted(inst, input_text, resp, opt) ==
    LET calls == <<Call(inst, "redact", <<input_text>>)>>
    IN  IF ~resp.result
        THEN [outcome |-> IF opt THEN NoneAttribute("redacted_text")
                          ELSE Raised("AssertionError", <<>>),
              wire |-> calls]
        ELSE [outcome |-> Returned(IF IsNone(resp.redacted) THEN input_text
                                   ELSE Get(resp.redacted)),
              wire |-> calls]

RedactRun(inst, input_text, resp, opt) ==
    LET calls == <<Call(inst, "redact", <<input_text>>)>>
    IN  IF ~resp.result
        THEN [outcome |-> IF opt THEN NoneAttribute("redacted_text")
                          ELSE Raised("AssertionError", <<>>),
              wire |-> calls]
        ELSE [outcome |-> Returned(IF OptStrTruthy(resp.redacted) THEN Get(resp.redacted)
                                   ELSE input_text),
              wire |-> calls]

\* Document objects have an identity: the objects of the list passed in are
\* 1 .. Len(documents), in list order; model_copy makes a new object, whose
\* identity is the next one not in use.
NewObject(documents, objects) == Len(documents) + Len(objects) + 1

\* PangeaGuardTransformer.transform_documents: the loop from document i on,
\* resps[i] being the vendor's response to the call for document i.  The
\* result also tells what the documents passed in hold after the call and
\* which objects the returned list holds.
RECURSIVE TransformFrom(_, _, _, _, _, _, _)
TransformFrom(inst, documents, resps, i, guarded_documents, objects, calls) ==
    IF i > Len(documents)
    THEN [outcome |-> ReturnedDocs(guarded_documents), wire |-> calls,
          documents |-> documents, objects |-> objects]
    ELSE LET document == documents[i]
             guarded == resps[i]
             sent == Append(calls, Call(inst, "guard_text", <<document.page_content>>))
             guarded_content == IF OptStrTruthy(guarded.redacted)
                                THEN Get(guarded.redacted)
                                ELSE document.page_content
         IN  IF ~guarded.result
             THEN [outcome |-> Raised("AssertionError",
                                      <<"Guard operation failed for document: ", "document">>),
                   wire |-> sent, documents |-> documents, objects |-> <<>>]
             ELSE TransformFrom(inst, documents, resps, i + 1,
                                Append(guarded_documents,
                                       [document EXCEPT !.page_content = guarded_content]),
                                Append(objects, NewObject(documents, objects)),
                                sent)

\* A transformer that skips a document whose response has no result and
\* goes on with the next one.
RECURSIVE TransformSkippingFrom(_, _, _, _, _, _)
TransformSkippingFrom(inst, documents, resps, i, guarded_documents, calls) ==
    IF i > Len(documents)
    THEN [outcome |-> ReturnedDocs(guarded_documents), wire |-> calls,
          documents |-> documents,
          objects |-> [k \in 1..Len(guarded_documents) |-> Len(documents) + k]]
    ELSE TransformSkippingFrom(inst, documents, resps, i + 1,
            IF ~resps[i].result THEN guarded_documents
            ELSE Append(guarded_documents,
                        [documents[i] EXCEPT !.page_content =
                            IF OptStrTruthy(resps[i].redacted) THEN Get(resps[i].redacted)
                            ELSE documents[i].page_content]),
            Append(calls, Call(inst, "guard_text", <<documents[i].page_content>>)))

TransformSkipping(inst, documents, resps) ==
    TransformSkippingFrom(inst, documents, resps, 1, <<>>, <<>>)

Reverse(seq) == [k \in 1..Len(seq) |-> seq[Len(seq) + 1 - k]]

WithDocsReversed(r) ==
    IF r.outcome.kind = "return"
    THEN [r EXCEPT !.outcome = ReturnedDocs(Reverse(Get(r.outcome.docs)))]
    ELSE r

TransformReversed(inst, documents, resps) ==
    WithDocsReversed(TransformFrom(inst, documents, resps, 1, <<>>, <<>>, <<>>))

\* A transformer that writes the guarded content into the document passed
\* in and returns that same object.
RECURSIVE TransformInPlaceFrom(_, _, _, _, _)
TransformInPlaceFrom(inst, documents, resps, i, calls) ==
    IF i > Len(documents)
    THEN [outcome |-> ReturnedDocs(documents), wire |-> calls,
          documents |-> documents, objects |-> [k \in 1..Len(documents) |-> k]]
    ELSE IF ~resps[i].result
    THEN [outcome |-> Raised("AssertionError",
                             <<"Guard operation failed for document: ", "document">>),
          wire |-> Append(calls, Call(inst, "guard_text", <<documents[i].page_content>>)),
          documents |-> documents, objects |-> <<>>]
    ELSE TransformInPlaceFrom(inst,
            [documents EXCEPT ![i].page_content =
                IF OptStrTruthy(resps[i].redacted) THEN Get(resps[i].redacted) ELSE @],
            resps, i + 1,
            Append(calls, Call(inst, "guard_text", <<documents[i].page_content>>)))

TransformInPlace(inst, documents, resps) ==
    TransformInPlaceFrom(inst, documents, resps, 1, <<>>)

Transform(inst, documents, resps) ==
    TransformFrom(inst, documents, resps, 1, <<>>, <<>>, <<>>)

----------------------------------------------------------------------------
(* The state machine: one adapter instance is constructed, then invoked *)

NoArgs ==
    [cls |-> "none", pangea_token |-> None, token |-> None, environ |-> <<>>, key |-> "",
     threshold |-> DefaultThreshold, recipe |-> ""]

NoCall ==
    [op |-> "none", args |-> NoArgs, input_text |-> None, documents |-> None,
     responses |-> <<>>, outcome |-> NoOutcome, documents_after |-> None, objects |-> <<>>]

Constructed(args, outcome) ==
    [op |-> "__init__", args |-> args, input_text |-> None, documents |-> None,
     responses |-> <<>>, outcome |-> outcome, documents_after |-> None, objects |-> <<>>]

\* A constructor call whose arguments the signature does not take: binding
\* them fails and the body of __init__ is never entered.
Rejected(args, outcome) ==
    [op |-> "bind", args |-> args, input_text |-> None, documents |-> None,
     responses |-> <<>>, outcome |-> outcome, documents_after |-> None, objects |-> <<>>]

Ran(input_text, resp, r) ==
    [op |-> "_run", args |-> NoArgs, input_text |-> Some(input_text), documents |-> None,
     responses |-> IF r.wire = <<>> THEN <<>> ELSE <<resp>>, outcome |-> r.outcome,
     documents_after |-> None, objects |-> <<>>]

Transformed(documents, resps, r) ==
    [op |-> "transform_documents", args |-> NoArgs, input_text |-> None,
     documents |-> Some(documents), responses |-> SubSeq(resps, 1, Len(r.wire)),
     outcome |-> r.outcome, documents_after |-> Some(r.documents), objects |-> r.objects]

\* raise ValueError(f"'{pangea_token_env_key_name}' must be set or passed")
CtorError(cls, key) ==
    Raised("ValueError",
           <<"'", key, IF cls = DomainGuard THEN "' must be or set or passed"
                       ELSE "' must be set or passed">>)

\* _run of the tool class of the instance.
RunOf(inst, input_text, resp, opt) ==
    CASE inst.cls = UrlGuard -> UrlRun(inst, input_text, resp, opt)
      [] inst.cls = IpGuard -> IpRun(inst, input_text, resp, opt)
      [] inst.cls = DomainGuard -> DomainRun(inst, input_text, resp, opt)
      [] inst.cls = PromptGuard -> PromptRun(inst, input_text, resp, opt)
      [] inst.cls = AIGuard -> AIRun(inst, input_text, resp, opt)
      [] inst.cls = RedactGuard -> RedactRun(inst, input_text, resp, opt)

\* A tool that remembers a failure: once a call has raised, the next call
\* raises the same error.
Sticky(r) ==
    IF last.op = "_run" /\ last.outcome.kind = "raise"
    THEN [r EXCEPT !.outcome = last.outcome]
    ELSE r

InvokeSticky(input_text, resp, r) ==
    /\ last' = Ran(input_text, resp, Sticky(r))
    /\ wire' = r.wire

\* A call of _run that ended as r: the log of the call and of its remote calls.
Invoke(input_text, resp, r) ==
    /\ last' = Ran(input_text, resp, r)
    /\ wire' = r.wire

InvokeDocs(documents, resps, r) ==
    /\ last' = Transformed(documents, resps, r)
    /\ wire' = r.wire

Init ==
    /\ optimize \in BOOLEAN
    /\ self = NoInstance
    /\ wire = <<>>
    /\ last = NoCall

\* __init__ of each adapter.  A behaviour follows one instance: the
\* constructor is called until a call succeeds, then the instance is invoked.
Construct ==
    /\ self = NoInstance
    /\ \E cls \in Adapters, pangea_token \in TokenArgs :
       \E environ \in Environs(cls), key \in {DefaultEnvKey(cls), CustomEnvKey},
          threshold \in (IF cls \in IntelGuards THEN Thresholds ELSE {DefaultThreshold}),
          recipe \in Recipes(cls) :
            LET token == ResolveToken(pangea_token, environ, key)
                args == [cls |-> cls, pangea_token |-> pangea_token, token |-> None,
                         environ |-> environ, key |-> key, threshold |-> threshold,
                         recipe |-> recipe]
            IN  IF TokenMissing(token)
                THEN /\ last' = Constructed(args, CtorError(cls, key))
                     /\ self' = NoInstance
                ELSE /\ last' = Constructed(args, Returned(<<>>))
                     /\ self' = NewInstance(cls, token, threshold, recipe)
    /\ wire' = <<>>
    /\ UNCHANGED optimize

\* TypeError: __init__() got an unexpected keyword argument 'token'
BindError(keyword) ==
    Raised("TypeError", <<"__init__() got an unexpected keyword argument ", keyword>>)

\* The keywords of the constructor calls in the integration tests.
TestKeywords(cls) ==
    IF cls \in {AIGuard, Transformer} THEN {"token", "config", "recipe"}
    ELSE {"token", "config"}

\* A constructor call as the integration tests make it: the credential is
\* passed under the keyword `token`.
ConstructAsTested ==
    /\ self = NoInstance
    /\ \E cls \in Adapters, token \in TokenArgs \ {None} :
       \E environ \in Environs(cls), recipe \in Recipes(cls) :
          LET args == [cls |-> cls, pangea_token |-> None, token |-> token,
                       environ |-> environ, key |-> DefaultEnvKey(cls),
                       threshold |-> DefaultThreshold, recipe |-> recipe]
          IN  /\ UnexpectedKeywords(cls, TestKeywords(cls)) /= {}
              /\ last' = Rejected(args, BindError(CHOOSE k \in UnexpectedKeywords(cls, TestKeywords(cls)) : TRUE))
    /\ self' = NoInstance
    /\ wire' = <<>>
    /\ UNCHANGED optimize

RunUrl ==
    /\ self.cls = UrlGuard
    /\ \E input_text \in Texts :
       \E resp \in IntelResponses(FindAll(UrlGuard, input_text)) :
          Invoke(input_text, resp, UrlRun(self, input_text, resp, optimize))
    /\ UNCHANGED <<optimize, self>>

RunIp ==
    /\ self.cls = IpGuard
    /\ \E input_text \in Texts :
       \E resp \in IntelResponses(FindAll(IpGuard, input_text)) :
          Invoke(input_text, resp, IpRun(self, input_text, resp, optimize))
    /\ UNCHANGED <<optimize, self>>

RunDomain ==
    /\ self.cls = DomainGuard
    /\ \E input_text \in Texts :
       \E resp \in IntelResponses(FindAll(DomainGuard, input_text)) :
          Invoke(input_text, resp, DomainRun(self, input_text, resp, optimize))
    /\ UNCHANGED <<optimize, self>>

RunPrompt ==
    /\ self.cls = PromptGuard
    /\ \E input_text \in Texts, resp \in PromptResponses :
          Invoke(input_text, resp, PromptRun(self, input_text, resp, optimize))
    /\ UNCHANGED <<optimize, self>>

RunAI ==
    /\ self.cls = AIGuard
    /\ \E input_text \in Texts, resp \in TextResponses :
          Invoke(input_text, resp, AIRun(self, input_text, resp, optimize))
    /\ UNCHANGED <<optimize, self>>

RunRedact ==
    /\ self.cls = RedactGuard
    /\ \E input_text \in Texts, resp \in RedactResponses :
          Invoke(input_text, resp, RedactRun(self, input_text, resp, optimize))
    /\ UNCHANGED <<optimize, self>>

TransformDocuments ==
    /\ self.cls = Transformer
    /\ \E documents \in DocLists :
       \E resps \in [1..Len(documents) -> RedactResponses] :
          InvokeDocs(documents, resps, Transform(self, documents, resps))
    /\ UNCHANGED <<optimize, self>>

Next ==
    \/ Construct
    \/ ConstructAsTested
    \/ RunUrl
    \/ RunIp
    \/ RunDomain
    \/ RunPrompt
    \/ RunAI
    \/ RunRedact
    \/ TransformDocuments

Spec == Init /\ [][Next]_vars

----------------------------------------------------------------------------
(* Properties *)

\* What a constructor call was given, read off its logged arguments.
ExplicitCredential(a) == ~IsNone(a.pangea_token) /\ Get(a.pangea_token) /= <<>>
EnvCredential(a) == ~IsNone(a.environ[a.key]) /\ Get(a.environ[a.key]) /= <<>>

JustConstructed == last.op = "__init__"
JustRan(cls) == last.op = "_run" /\ self.cls = cls

\* C1: construction of any adapter fails with ValueError if and only if
\* neither the explicit pangea_token argument nor the environment variable
\* named by pangea_token_env_key_name yields a non-empty credential; when
\* it fails no vendor client exists and no remote call was made.
C1_ConstructFailsIffNoCredential ==
    JustConstructed =>
        /\ (last.outcome.kind = "raise" /\ last.outcome.error = "ValueError")
              <=> (~ExplicitCredential(last.args) /\ ~EnvCredential(last.args))
        /\ last.outcome.kind \in {"raise", "return"}
        /\ last.outcome.kind = "raise" => (self = NoInstance /\ wire = <<>>)
        /\ last.outcome.kind = "return" => (self.cls = last.args.cls /\ ~IsNone(self.client))

\* An empty explicit token and an unset variable under the key named, while
\* the default variable holds a credential: construction fails.
C1_Witness ==
    /\ JustConstructed
    /\ last.args.pangea_token = Some(<<>>)
    /\ last.args.key = CustomEnvKey
    /\ last.args.environ[CustomEnvKey] = None
    /\ last.args.environ[DefaultEnvKey(last.args.cls)] = Some(TokEnv)
    /\ last.outcome.error = "ValueError"
    /\ self = NoInstance

\* C2: the credential is resolved by fallback: a non-empty explicit
\* pangea_token is the client's token whatever the environment holds; the
\* environment variable's value is used only when the explicit token is
\* absent or empty.
C2_ExplicitTokenWins ==
    (JustConstructed /\ last.outcome.kind = "return") =>
        Get(self.client).token =
            IF ExplicitCredential(last.args) THEN Get(last.args.pangea_token)
            ELSE Get(last.args.environ[last.args.key])

\* Both an explicit token and the environment variable are given, and the
\* client holds the explicit one.
C2_Witness ==
    /\ JustConstructed
    /\ last.args.pangea_token = Some(TokArg)
    /\ last.args.environ[last.args.key] = Some(TokEnv)
    /\ ~IsNone(self.client)
    /\ Get(self.client).token = TokArg

\* The exception a reputation guard raises for malicious content.
MaliciousOutcome(cls) ==
    CASE cls = UrlGuard ->
            Raised("PangeaUrlGuardError", <<"Malicious URLs found in the provided input", ".">>)
      [] cls = IpGuard ->
            Raised("MaliciousIpAddressesError", <<"Malicious IPs found in the provided input", ".">>)
      [] cls = DomainGuard ->
            Raised("MaliciousDomainsError", <<"Malicious domains found in the provided input">>)

\* A reputation guard has just run on a text with candidates and the vendor
\* response carries a result.
ScoredRun ==
    /\ last.op = "_run"
    /\ self.cls \in IntelGuards
    /\ Len(FindAll(self.cls, Get(last.input_text))) > 0
    /\ Len(last.responses) = 1
    /\ last.responses[1].result

C4_DetectOnlyGuardsReturnInput ==
    (last.op = "_run" /\ self.cls \in IntelGuards \cup {PromptGuard}
        /\ last.outcome.kind = "return")
    => last.outcome.text = last.input_text

\* The URL guard looked a URL up, found it harmless and returned the text.
C4_Witness ==
    /\ JustRan(UrlGuard)
    /\ wire /= <<>>
    /\ last.outcome.kind = "return"
    /\ last.input_text = Some(TextUrl)
    /\ last.outcome.text = Some(TextUrl)

\* The one response a tool consumed in its last run.
Response == last.responses[1]

\* C5: the prompt guard has three outcomes, decided in this order: no result
\* raises PangeaPromptGuardError "Result is invalid or missing"; a result
\* with detected true raises PangeaPromptGuardError "Malicious prompt
\* detected."; otherwise input_text is returned unchanged.
C5_PromptGuardOutcomes ==
    JustRan(PromptGuard) =>
        /\ Len(last.responses) = 1
        /\ last.outcome =
             IF ~Response.result
             THEN Raised("PangeaPromptGuardError", <<"Result is invalid or missing">>)
             ELSE IF Response.detected
             THEN Raised("PangeaPromptGuardError", <<"Malicious prompt detected", ".">>)
             ELSE Returned(Get(last.input_text))

\* The vendor detected a malicious prompt and the guard raised.
C5_Witness ==
    /\ JustRan(PromptGuard)
    /\ Response.result
    /\ Response.detected
    /\ last.outcome.kind = "raise"
    /\ last.outcome.message = <<"Malicious prompt detected", ".">>

C7_RedactReturnsRedactedOrInput ==
    (JustRan(RedactGuard) /\ Len(last.responses) = 1 /\ Response.result) =>
        /\ last.outcome =
             IF ~IsNone(Response.redacted) /\ Get(Response.redacted) /= <<>>
             THEN Returned(Get(Response.redacted))
             ELSE Returned(Get(last.input_text))
        /\ Get(last.input_text) /= <<>> => last.outcome.text /= Some(<<>>)

\* The vendor sent an empty redacted_text and the guard returned the input.
C7_Witness ==
    /\ JustRan(RedactGuard)
    /\ Response.result
    /\ Response.redacted = Some(<<>>)
    /\ last.input_text = Some(TextIp)
    /\ last.outcome = Returned(TextIp)

\* transform_documents was just called and every document's response
\* carried a result.
TransformedAll ==
    /\ last.op = "transform_documents"
    /\ Len(last.responses) = Len(Get(last.documents))
    /\ \A i \in 1..Len(last.responses) : last.responses[i].result

\* C8: when every per-document response has a result, transform_documents
\* returns as many documents as it was given, in the same order; the i-th
\* page_content is the i-th response's redacted_prompt if non-empty and
\* the i-th input's page_content otherwise; the metadata is carried over.
C8_TransformMapsEachDocument ==
    TransformedAll =>
        /\ last.outcome.kind = "return"
        /\ Len(Get(last.outcome.docs)) = Len(Get(last.documents))
        /\ \A i \in 1..Len(Get(last.documents)) :
              /\ Get(last.outcome.docs)[i].page_content =
                    IF ~IsNone(last.responses[i].redacted)
                       /\ Get(last.responses[i].redacted) /= <<>>
                    THEN Get(last.responses[i].redacted)
                    ELSE Get(last.documents)[i].page_content
              /\ Get(last.outcome.docs)[i].metadata = Get(last.documents)[i].metadata

\* Two different documents, the first redacted and the second not.
C8_Witness ==
    /\ TransformedAll
    /\ Len(Get(last.documents)) = 2
    /\ Get(last.documents)[1] /= Get(last.documents)[2]
    /\ last.responses[1].redacted = Some(RedactedA)
    /\ last.responses[2].redacted = None
    /\ last.outcome.kind = "return"
    /\ Get(last.outcome.docs)[1].page_content = RedactedA
    /\ Get(last.outcome.docs)[2] = Get(last.documents)[2]

\* An adapter was invoked and the last response it consumed had no result.
ResultWasMissing ==
    /\ last.op \in {"_run", "transform_documents"}
    /\ Len(last.responses) > 0
    /\ ~last.responses[Len(last.responses)].result

\* C9: when the vendor response has no result, every adapter raises the
\* error type defined in its own module, not a generic assertion failure,
\* and returns no text.
C9_MissingResultRaisesOwnError ==
    ResultWasMissing =>
        /\ last.outcome.kind = "raise"
        /\ last.outcome.error \in ModuleErrors(self.cls)

\* re.search(sentence + ".", message), as pytest.raises(match=...) applies
\* it: the sentence must be followed by one more character.
MatchesSentenceDot(message, sentence) ==
    Len(message) >= 2 /\ message[1] = sentence

\* C10: when the domain guard finds a domain whose score reaches the
\* threshold, the error raised is the one its module exports as
\* PangeaDomainGuardError and its message matches the pattern
\* "Malicious domains found in the provided input." (one further character
\* after "input").
C10_DomainErrorAsTested ==
    (ScoredRun /\ self.cls = DomainGuard
        /\ \E k \in DOMAIN Response.data : Response.data[k] >= Get(self.threshold))
    => /\ last.outcome.kind = "raise"
       /\ last.outcome.error = "PangeaDomainGuardError"
       /\ "PangeaDomainGuardError" \in ModuleErrors(DomainGuard)
       /\ MatchesSentenceDot(last.outcome.message,
                             "Malicious domains found in the provided input")

\* C11: when the IP guard finds an IP address whose score reaches the
\* threshold, the error raised is the one its module exports as
\* PangeaIpGuardError and its message matches the pattern
\* "Malicious IPs found in the provided input.".
C11_IpErrorAsTested ==
    (ScoredRun /\ self.cls = IpGuard
        /\ \E k \in DOMAIN Response.data : Response.data[k] >= Get(self.threshold))
    => /\ last.outcome.kind = "raise"
       /\ last.outcome.error = "PangeaIpGuardError"
       /\ "PangeaIpGuardError" \in ModuleErrors(IpGuard)
       /\ MatchesSentenceDot(last.outcome.message,
                             "Malicious IPs found in the provided input")

\* A constructor was called with the credential under the keyword `token`
\* and no environment variable set.
TokenKeywordCall ==
    /\ last.op \in {"__init__", "bind"}
    /\ ~IsNone(last.args.token)
    /\ Get(last.args.token) /= <<>>
    /\ \A k \in DOMAIN last.args.environ : IsNone(last.args.environ[k])

\* C12: every adapter can be constructed by passing the credential under
\* the keyword `token`, with no environment variable set: the constructor
\* accepts the keyword, uses its value as the client's credential and does
\* not raise.
C12_TokenKeywordAccepted ==
    TokenKeywordCall =>
        /\ last.outcome.kind = "return"
        /\ self.cls = last.args.cls
        /\ ~IsNone(self.client)
        /\ Get(self.client).token = Get(last.args.token)

\* C13: whenever the vendor's guard_text response reports that malicious
\* content was detected, PangeaAIGuard._run raises PangeaAIGuardError
\* instead of returning text.
C13_AIGuardRaisesOnDetection ==
    (JustRan(AIGuard) /\ Len(last.responses) = 1 /\ Response.result /\ Response.detected)
    => /\ last.outcome.kind = "raise"
       /\ last.outcome.error = "PangeaAIGuardError"
       /\ IsNone(last.outcome.text)

\* Where the URL whose host starts at position h ends: after the host name
\* or dotted address and the port, whatever follows.
UrlEnd(s, h, run) == h + run + Max(PortLens(s, h + run))

\* The URLs a text contains: every http:// or https:// followed by a host.
UrlsIn(s) ==
    {SubSeq(s, i, UrlEnd(s, i + SchemeLen(s, i), RunLen(s, i + SchemeLen(s, i), HostChars)) - 1) :
        i \in {j \in 1..Len(s) : /\ SchemeLen(s, j) > 0
                                /\ RunLen(s, j + SchemeLen(s, j), HostChars) > 0}}

\* C14: for every input that contains an http:// or https:// URL, whatever
\* follows the URL, the URL guard submits that URL to the reputation lookup,
\* and when the vendor scores a URL at or above the threshold the guard
\* raises PangeaUrlGuardError and does not return the text.
C14_EveryUrlIsLookedUp ==
    (JustRan(UrlGuard) /\ UrlsIn(Get(last.input_text)) /= {})
    => /\ Len(wire) = 1
       /\ UrlsIn(Get(last.input_text)) \subseteq Range(wire[1].args)
       /\ (Response.result /\ AnyScoreReaches(Response.data, Get(self.threshold)))
             => (last.outcome.kind = "raise" /\ last.outcome.error = "PangeaUrlGuardError")

\* The response a call of _run consumed, if it consumed one.
ResponseTo(call) == IF call.responses = <<>> THEN NoResult ELSE call.responses[1]

MethodOf(cls) ==
    CASE cls \in IntelGuards -> "reputation_bulk"
      [] cls = PromptGuard -> "guard"
      [] cls = AIGuard -> "guard_text"
      [] cls = RedactGuard -> "redact"

\* C16: a tool invocation calls one vendor-SDK method at most once and
\* never retries: the redact, prompt and AI guards make exactly one remote
\* call per _run, carrying input_text; a reputation guard that extracts at
\* least one candidate makes exactly one bulk call carrying all of them; an
\* invocation that raises or gets no result has made no second call.
C16_OneRemoteCallPerRun ==
    last.op = "_run" =>
        /\ Len(wire) <= 1
        /\ \A k \in 1..Len(wire) :
              /\ wire[k].method = MethodOf(self.cls)
              /\ wire[k].service = ServiceOf(self.cls)
        /\ self.cls \in {RedactGuard, PromptGuard, AIGuard} =>
              /\ Len(wire) = 1
              /\ wire[1].args = <<Get(last.input_text)>>
        /\ (self.cls \in IntelGuards /\ FindAll(self.cls, Get(last.input_text)) /= <<>>) =>
              /\ Len(wire) = 1
              /\ wire[1].args = FindAll(self.cls, Get(last.input_text))

\* The domain guard found two domains, sent both in one call and raised
\* because the response had no result.
C16_Witness ==
    /\ JustRan(DomainGuard)
    /\ last.input_text = Some(TextTwoUrls)
    /\ Len(wire) = 1
    /\ Len(wire[1].args) = 2
    /\ wire[1].args[1] /= wire[1].args[2]
    /\ ~Response.result
    /\ last.outcome.kind = "raise"

\* C17: when the pattern of a reputation guard (URL, IP, domain) matches
\* nothing in input_text, _run returns input_text unchanged and makes no
\* remote call, so no vendor response is consumed and nothing is raised.
C17_NoCandidatesNoCall ==
    (last.op = "_run" /\ self.cls \in IntelGuards
        /\ FindAll(self.cls, Get(last.input_text)) = <<>>)
    => /\ last.outcome = Returned(Get(last.input_text))
       /\ wire = <<>>
       /\ last.responses = <<>>

\* The IP guard ran on a text that holds a URL but no IP address.
C17_Witness ==
    /\ JustRan(IpGuard)
    /\ last.input_text = Some(TextUrl)
    /\ FindAll(IpGuard, TextUrl) = <<>>
    /\ last.outcome = Returned(TextUrl)
    /\ wire = <<>>

\* C18: a reputation guard raises only if some score is higher than the
\* threshold: when every score of the response is less than or equal to the
\* threshold, a score equal to it included, the guard returns input_text
\* and does not raise.
C18_RaisesOnlyAboveThreshold ==
    (ScoredRun /\ \A k \in DOMAIN Response.data : Response.data[k] <= Get(self.threshold))
    => last.outcome = Returned(Get(last.input_text))

\* C19: transform_documents is fail-stop and all-or-nothing: the documents
\* are sent to the vendor one at a time in input order; at the first
\* document whose response has no result the call raises, returns no list
\* of the documents guarded so far, and sends no later document.
C19_TransformFailStop ==
    last.op = "transform_documents" =>
        /\ Len(wire) <= Len(Get(last.documents))
        /\ Len(last.responses) = Len(wire)
        /\ \A i \in 1..Len(wire) :
              /\ wire[i].method = "guard_text"
              /\ wire[i].args = <<Get(last.documents)[i].page_content>>
              /\ i < Len(wire) => last.responses[i].result
        /\ (\E i \in 1..Len(last.responses) : ~last.responses[i].result) =>
              /\ last.outcome.kind = "raise"
              /\ IsNone(last.outcome.docs)
        /\ last.outcome.kind = "return" => Len(wire) = Len(Get(last.documents))
        /\ last.outcome.kind \in {"raise", "return"}

\* Of two documents the first got a response without a result: the call
\* raised and the second document was never sent.
C19_Witness ==
    /\ last.op = "transform_documents"
    /\ Len(Get(last.documents)) = 2
    /\ Len(wire) = 1
    /\ wire[1].args = <<Get(last.documents)[1].page_content>>
    /\ ~last.responses[1].result
    /\ last.outcome.kind = "raise"
    /\ IsNone(last.outcome.docs)

\* The identities of the Document objects of the list passed in.
InputObjects == 1..Len(Get(last.documents))

\* C20: transform_documents never mutates its input: after any call,
\* returning or raising, every document passed in has the page_content and
\* metadata it had before, and each returned document is a new object,
\* different from every input document and from the other returned ones,
\* that carries the metadata of the input document at its position.
C20_TransformLeavesInputAlone ==
    last.op = "transform_documents" =>
        /\ last.documents_after = last.documents
        /\ last.outcome.kind = "return" =>
              /\ Len(last.objects) = Len(Get(last.outcome.docs))
              /\ Len(last.objects) = Len(Get(last.documents))
              /\ \A k \in 1..Len(last.objects) :
                    /\ last.objects[k] \notin InputObjects
                    /\ \A j \in 1..Len(last.objects) :
                          j /= k => last.objects[j] /= last.objects[k]
                    /\ Get(last.outcome.docs)[k].metadata = Get(last.documents)[k].metadata

\* Two documents went in, the first came back redacted, and the first
\* document passed in still holds its own text.
C20_Witness ==
    /\ last.op = "transform_documents"
    /\ last.outcome.kind = "return"
    /\ Len(Get(last.documents)) = 2
    /\ last.responses[1].redacted = Some(RedactedA)
    /\ Get(last.outcome.docs)[1].page_content = RedactedA
    /\ Get(last.documents_after)[1].page_content = TextIp
    /\ last.objects = <<3, 4>>

\* The candidates the guard submitted in its last run.
Submitted == Range(FindAll(self.cls, Get(last.input_text)))

\* C21: every candidate a reputation guard submits is accounted for before
\* text is passed through: when the guard extracted candidates and returned
\* input_text, the vendor response held a score below the threshold for each
\* submitted candidate; a response that omits a candidate, or whose data map
\* is empty, does not let the text through.
C21_EveryCandidateAccountedFor ==
    (ScoredRun /\ last.outcome.kind = "return")
    => \A c \in Submitted :
          /\ c \in DOMAIN Response.data
          /\ Response.data[c] < Get(self.threshold)

====
